---- MODULE Spec2Model ----
(***************************************************************************)
(* Model of th2c/connection.py, class HTTP2ClientConnection: the connect   *)
(* lifecycle (connect, on_connect, on_timeout, on_error, on_close), the    *)
(* data pump (data_received, process_events, flush), the stream registry   *)
(* (begin_stream, end_stream) and the observer registration.               *)
(*                                                                         *)
(* The IOLoop, the TCP client, the IOStream and the h2 engine are the      *)
(* environment: the model holds just enough of their state to say which    *)
(* callback may run next.  All callbacks run on one IOLoop thread, so      *)
(* every handler is one atomic action.                                     *)
(***************************************************************************)
EXTENDS Integers, Sequences, FiniteSets, TLC

\* ---- bounds of the model (not program constants) ----
MaxConnects == 2      \* connect() calls that get past the guard
MaxCloses == 3        \* cap on closures caused by read-phase errors
MaxStreams == 2       \* stream ids the client may allocate: 1, 3, ...
MaxBatch == 2         \* events in one decode batch

\* ---- values ----
None == "None"                      \* Python None, where the other values are strings
NoStream == 0                       \* self.stream is None
NoTimer == 0                        \* self._connect_timeout_t is None
FiredTimer == -1                    \* self._connect_timeout_t is False
Attempts == 1..MaxConnects          \* connect attempts; attempt a yields transport a
Handlers == {"h1", "h2"}            \* stream handler objects of the caller
NoHandler == "none"
Observers == {"o1"}                 \* connection-level observer callables
Categories == {"DataReceived", "RemoteSettingsChanged"}
Lens == {0, 1, 2}                   \* flow_controlled_length of a data event
StreamIds == {2 * k - 1 : k \in 1..MaxStreams}
TIMEOUT == "HTTPError599"           \* reason made by on_timeout
ERROR == "error"                    \* val handed to on_error
CloseReasons == {None, "ECONNRESET"} \* io_stream.error of a closed transport

VARIABLES
    is_connected,       \* self._is_connected
    timed_out,          \* self.timed_out
    stream,             \* self.stream: NoStream or a transport
    connect_timeout_t,  \* self._connect_timeout_t: NoTimer, FiredTimer or the
                        \* handle of the timer of an attempt
    h2conn,             \* self.h2conn: None or "Engine"
    highest,            \* h2 engine: highest outbound stream id opened so far
    ongoing_streams,    \* self._ongoing_streams: stream id -> handler
    event_handlers,     \* self.event_handlers: key -> set of observers
    stream_id_of,       \* handler.stream_id as assigned by the caller
    timers,             \* IOLoop: attempts whose timer is scheduled, not fired
    fired,              \* IOLoop: attempts whose timer has fired
    pending,            \* TCP client: attempts whose connect is in flight
    opened,             \* transports handed to on_connect so far
    closed_transports,  \* transports on which close() has been called
    close_callbacks,    \* transports whose close callback is set and not run
    reading,            \* transports with a read armed by on_connect
    closed_log,         \* reasons passed to on_connection_closed, in order
    ready_pending,      \* on_connection_ready callbacks queued on the IOLoop
    ready_calls,        \* on_connection_ready invocations so far
    connect_calls,      \* connect() calls that got past the guard
    begun,              \* the ids begin_stream has returned so far
    last_op,            \* name and outcome of the last handler that ran
    obs                 \* what the last handler was given and did

conn_vars == <<is_connected, timed_out, stream, connect_timeout_t, h2conn, highest>>
reg_vars == <<ongoing_streams, stream_id_of, begun>>
env_vars == <<timers, fired, pending, opened, closed_transports, close_callbacks, reading>>
cb_vars == <<closed_log, ready_pending, ready_calls>>
vars == <<is_connected, timed_out, stream, connect_timeout_t, h2conn, highest,
          ongoing_streams, event_handlers, stream_id_of,
          timers, fired, pending, opened, closed_transports, close_callbacks, reading,
          closed_log, ready_pending, ready_calls, connect_calls, begun,
          last_op, obs>>

\* What one handler run was given and did, kept until the next handler runs.
NoObs == [arg |-> <<>>,             \* the handler's arguments
          batch |-> <<>>,           \* events given to process_events
          registry |-> <<>>,        \* the registry the batch was routed by
          recv |-> <<>>,            \* recv_streams when the event loop was left
          delivered |-> <<>>,       \* <<handler, index>> per handle_event call
          reported |-> <<>>,        \* <<handler, index>> per handle_exception call
          observed |-> <<>>,        \* <<observer, index>> per observer call
          increments |-> <<>>,      \* <<stream id or 0, amount>> per command
          swallowed |-> {},         \* stream ids whose increment was refused
          flushed |-> FALSE,        \* flush() ran after the increments
          raised |-> FALSE,         \* process_events left by an exception
          terminated |-> FALSE]     \* connection_terminated at loop end

\* Python truthiness of the timer handle: None and False are falsy.
Truthy(handle) == handle \notin {NoTimer, FiredTimer}

Init ==
    /\ is_connected = FALSE
    /\ timed_out = FALSE
    /\ stream = NoStream
    /\ connect_timeout_t = NoTimer
    /\ h2conn = None
    /\ highest = 0
    /\ ongoing_streams = [s \in StreamIds |-> NoHandler]
    /\ event_handlers = [c \in {} |-> {}]
    /\ stream_id_of = [h \in Handlers |-> 0]
    /\ timers = {}
    /\ fired = {}
    /\ pending = {}
    /\ opened = {}
    /\ closed_transports = {}
    /\ close_callbacks = {}
    /\ reading = {}
    /\ closed_log = <<>>
    /\ ready_pending = 0
    /\ ready_calls = 0
    /\ connect_calls = 0
    /\ begun = {}
    /\ last_op = "init"
    /\ obs = NoObs

\* ---- the closure routine --------------------------------------------------
\* The body of on_close(reason): cur_closed is the set of transports closed
\* before the call.
on_close_body(reason, cur_closed) ==
    /\ is_connected' = FALSE
    /\ h2conn' = None
    /\ highest' = 0
    /\ closed_transports' = IF stream # NoStream
                              THEN cur_closed \cup {stream}
                              ELSE cur_closed
    /\ stream' = NoStream
    /\ closed_log' = Append(closed_log, reason)

\* ---- connect() ------------------------------------------------------------
connect_rejected ==
    /\ Truthy(connect_timeout_t)
    /\ last_op' = "connect_rejected"
    /\ obs' = NoObs
    /\ UNCHANGED <<conn_vars, reg_vars, env_vars, cb_vars, event_handlers, connect_calls>>

connect_accepted ==
    /\ ~Truthy(connect_timeout_t)
    /\ connect_calls < MaxConnects
    /\ timed_out' = FALSE
    /\ connect_timeout_t' = connect_calls + 1
    /\ timers' = timers \cup {connect_calls + 1}
    /\ pending' = pending \cup {connect_calls + 1}
    /\ connect_calls' = connect_calls + 1
    /\ last_op' = "connect"
    /\ obs' = NoObs
    /\ UNCHANGED <<is_connected, stream, h2conn, highest, reg_vars, cb_vars,
                   event_handlers, fired, opened, closed_transports, close_callbacks,
                   reading>>

connect == connect_rejected \/ connect_accepted

\* ---- on_connect(io_stream) ------------------------------------------------
\* The TCP client resolves the pending connect of attempt a with transport a.
on_connect_discard(a) ==
    /\ a \in pending
    /\ timed_out
    /\ pending' = pending \ {a}
    /\ opened' = opened \cup {a}
    /\ closed_transports' = closed_transports \cup {a}
    /\ last_op' = "on_connect_discard"
    /\ obs' = [NoObs EXCEPT !.arg = <<a>>]
    /\ UNCHANGED <<conn_vars, reg_vars, cb_vars, event_handlers, timers, fired,
                   close_callbacks, reading, connect_calls>>

on_connect_accept(a) ==
    /\ a \in pending
    /\ ~timed_out
    /\ Truthy(connect_timeout_t)
    /\ pending' = pending \ {a}
    /\ opened' = opened \cup {a}
    /\ is_connected' = TRUE
    /\ timers' = timers \ {connect_timeout_t}
    /\ connect_timeout_t' = NoTimer
    /\ stream' = a
    /\ close_callbacks' = close_callbacks \cup {a}
    /\ h2conn' = "Engine"
    /\ highest' = 0
    /\ reading' = reading \cup {a}
    /\ ready_pending' = ready_pending + 1
    /\ last_op' = "on_connect"
    /\ obs' = [NoObs EXCEPT !.arg = <<a>>, !.flushed = TRUE]
    /\ UNCHANGED <<timed_out, reg_vars, event_handlers, fired, closed_transports,
                   closed_log, ready_calls, connect_calls>>

\* The handle is None or False: IOLoop.remove_timeout(handle) raises after
\* _is_connected was set, the "during connection" context hands the error
\* to on_error, which runs on_close.  The new transport is never recorded.
on_connect_raise(a) ==
    /\ a \in pending
    /\ ~timed_out
    /\ ~Truthy(connect_timeout_t)
    /\ pending' = pending \ {a}
    /\ opened' = opened \cup {a}
    /\ on_close_body(ERROR, closed_transports)
    /\ last_op' = "on_connect_raise"
    /\ obs' = [NoObs EXCEPT !.arg = <<a>>]
    /\ UNCHANGED <<timed_out, connect_timeout_t, reg_vars, event_handlers, timers,
                   fired, close_callbacks, reading, ready_pending, ready_calls,
                   connect_calls>>

on_connect(a) == on_connect_discard(a) \/ on_connect_accept(a) \/ on_connect_raise(a)

\* ---- on_close(reason) as the transport's close callback --------------------
\* The callback was bound to io_stream.error as it was when on_connect ran,
\* so the reason it passes is None.  The IOStream runs it once, after the
\* peer closed the transport or after close() was called on it.
\* obs.arg keeps the transport and the error the transport closed with
\* (io_stream.error when the callback runs), which on_close is not given.
on_close(t) ==
    /\ t \in close_callbacks
    /\ close_callbacks' = close_callbacks \ {t}
    /\ on_close_body(None, closed_transports \cup {t})
    /\ last_op' = "on_close"
    /\ \E why \in CloseReasons : obs' = [NoObs EXCEPT !.arg = <<t, why>>]
    /\ UNCHANGED <<timed_out, connect_timeout_t, reg_vars, event_handlers, timers,
                   fired, pending, opened, reading, ready_pending, ready_calls,
                   connect_calls>>

\* ---- on_timeout() ---------------------------------------------------------
on_timeout(a) ==
    /\ a \in timers
    /\ timers' = timers \ {a}
    /\ fired' = fired \cup {a}
    /\ timed_out' = TRUE
    /\ connect_timeout_t' = FiredTimer
    /\ on_close_body(TIMEOUT, closed_transports)
    /\ last_op' = "on_timeout"
    /\ obs' = [NoObs EXCEPT !.arg = <<a>>]
    /\ UNCHANGED <<reg_vars, event_handlers, pending, opened, close_callbacks,
                   reading, ready_pending, ready_calls, connect_calls>>

\* ---- on_error(phase, typ, val, tb) ----------------------------------------
\* "during connection": the pending transport connect of attempt a fails.
on_error_connect(a) ==
    /\ a \in pending
    /\ pending' = pending \ {a}
    /\ on_close_body(ERROR, closed_transports)
    /\ last_op' = "on_error_connect"
    /\ obs' = [NoObs EXCEPT !.arg = <<a>>]
    /\ UNCHANGED <<timed_out, connect_timeout_t, reg_vars, event_handlers, timers,
                   fired, opened, close_callbacks, reading, ready_pending,
                   ready_calls, connect_calls>>

\* "during read": an error surfaces in the read context of an open transport.
on_error_read ==
    /\ reading \ closed_transports # {}
    /\ Len(closed_log) < MaxCloses
    /\ on_close_body(ERROR, closed_transports)
    /\ last_op' = "on_error_read"
    /\ obs' = NoObs
    /\ UNCHANGED <<timed_out, connect_timeout_t, reg_vars, event_handlers, timers,
                   fired, pending, opened, close_callbacks, reading, ready_pending,
                   ready_calls, connect_calls>>

\* ---- the IOLoop runs a queued on_connection_ready --------------------------
on_connection_ready ==
    /\ ready_pending > 0
    /\ ready_pending' = ready_pending - 1
    /\ ready_calls' = ready_calls + 1
    /\ last_op' = "on_connection_ready"
    /\ obs' = NoObs
    /\ UNCHANGED <<conn_vars, reg_vars, env_vars, event_handlers, closed_log,
                   connect_calls>>

\* ---- stream registry ------------------------------------------------------
\* h2's get_next_available_stream_id() for a client: 1 before any stream was
\* opened, else the highest opened id plus 2.  It reserves nothing.
get_next_available_stream_id == IF highest = 0 THEN 1 ELSE highest + 2

Registered == {ongoing_streams[s] : s \in StreamIds} \ {NoHandler}

\* begin_stream(stream) for a handler object that is not registered.
begin_stream(h) ==
    /\ h \notin Registered
    /\ h2conn # None
    /\ get_next_available_stream_id \in StreamIds
    /\ ongoing_streams' = [ongoing_streams EXCEPT ![get_next_available_stream_id] = h]
    /\ stream_id_of' = [stream_id_of EXCEPT ![h] = get_next_available_stream_id]
    /\ begun' = begun \cup {get_next_available_stream_id}
    /\ last_op' = "begin_stream"
    /\ obs' = [NoObs EXCEPT !.arg = <<h, get_next_available_stream_id>>]
    /\ UNCHANGED <<conn_vars, env_vars, cb_vars, event_handlers, connect_calls>>

\* The caller sends the request headers of its stream: the engine opens it.
open_stream(h) ==
    /\ h2conn # None
    /\ stream_id_of[h] > highest
    /\ highest' = stream_id_of[h]
    /\ last_op' = "open_stream"
    /\ obs' = [NoObs EXCEPT !.arg = <<h>>]
    /\ UNCHANGED <<is_connected, timed_out, stream, connect_timeout_t, h2conn,
                   reg_vars, env_vars, cb_vars, event_handlers, connect_calls>>

\* end_stream(stream): del self._ongoing_streams[stream.stream_id]
end_stream(h) ==
    /\ stream_id_of[h] # 0
    /\ IF ongoing_streams[stream_id_of[h]] # NoHandler
         THEN /\ ongoing_streams' = [ongoing_streams EXCEPT ![stream_id_of[h]] = NoHandler]
              /\ last_op' = "end_stream"
         ELSE /\ ongoing_streams' = ongoing_streams
              /\ last_op' = "end_stream_raise"
    /\ obs' = [NoObs EXCEPT !.arg = <<h>>]
    /\ UNCHANGED <<conn_vars, stream_id_of, begun, env_vars, cb_vars,
                   event_handlers, connect_calls>>

\* ---- observers ------------------------------------------------------------
\* dict.get(key, set()): the stored set, or a fresh empty set that is not
\* stored in the dict.
DictGet(d, key) == IF key \in DOMAIN d THEN d[key] ELSE {}

CategoryKey(c) == [kind |-> "category", name |-> c]
\* process_events looks the event object itself up in the dict.
EventKey(e) == [kind |-> "instance", name |-> e.type]

add_event_handler(c, o) ==
    /\ event_handlers' =
         IF CategoryKey(c) \in DOMAIN event_handlers
           THEN [event_handlers EXCEPT ![CategoryKey(c)] = @ \cup {o}]
           ELSE event_handlers
    /\ last_op' = "add_event_handler"
    /\ obs' = [NoObs EXCEPT !.arg = <<c, o>>]
    /\ UNCHANGED <<conn_vars, reg_vars, env_vars, cb_vars, connect_calls>>

remove_event_handler(c, o) ==
    /\ IF o \in DictGet(event_handlers, CategoryKey(c))
         THEN /\ event_handlers' = [event_handlers EXCEPT ![CategoryKey(c)] = @ \ {o}]
              /\ last_op' = "remove_event_handler"
         ELSE /\ event_handlers' = event_handlers
              /\ last_op' = "remove_event_handler_raise"
    /\ obs' = [NoObs EXCEPT !.arg = <<c, o>>]
    /\ UNCHANGED <<conn_vars, reg_vars, env_vars, cb_vars, connect_calls>>

\* ---- decoded events -------------------------------------------------------
\* stream_id 0 stands for an event that has no stream_id attribute.
DataEvents == [type : {"DataReceived"}, stream_id : StreamIds, len : Lens]
StreamEvents == [type : {"StreamEnded"}, stream_id : StreamIds, len : {0}]
ConnEvents == [type : {"RemoteSettingsChanged", "ConnectionTerminated"},
               stream_id : {0}, len : {0}]
Events == DataEvents \cup StreamEvents \cup ConnEvents
Batches == UNION {[1..n -> Events] : n \in 1..MaxBatch}

\* How a stream handler reacts to the events of one batch: handle_event
\* returns ("ok"), or raises and handle_exception returns a true value
\* ("handled") or a false one ("unhandled").
Outcomes == {"ok", "handled", "unhandled"}
Behaviours == [Handlers -> Outcomes]

\* ---- process_events(events) -----------------------------------------------
LoopStart == [recv |-> [s \in StreamIds |-> 0],
              delivered |-> <<>>, reported |-> <<>>, observed |-> <<>>,
              settings_updated |-> FALSE, connection_terminated |-> FALSE,
              raised |-> FALSE]

\* The if/elif chain on the event's type (lines 207-212).
Classify(st, e) ==
    CASE e.type = "RemoteSettingsChanged" -> [st EXCEPT !.settings_updated = TRUE]
      [] e.type = "ConnectionTerminated" -> [st EXCEPT !.connection_terminated = TRUE]
      [] e.type = "DataReceived" -> [st EXCEPT !.recv[e.stream_id] = @ + e.len]
      [] OTHER -> st

\* with ExceptionStackContext(stream.handle_exception): stream.handle_event(event)
\* The context manager's __exit__ returns what handle_exception returns, so
\* the exception is suppressed only when that value is true.
Deliver(st, e, i, reg, behaviour) ==
    IF e.stream_id # 0 /\ reg[e.stream_id] # NoHandler
      THEN LET h == reg[e.stream_id]
               d == [st EXCEPT !.delivered = Append(@, <<h, i>>)]
           IN CASE behaviour[h] = "ok" -> d
                [] behaviour[h] = "handled" ->
                     [d EXCEPT !.reported = Append(@, <<h, i>>)]
                [] OTHER ->
                     [d EXCEPT !.reported = Append(@, <<h, i>>), !.raised = TRUE]
      ELSE st

SetToSeq(S) ==
    LET RECURSIVE build(_)
        build(T) == IF T = {} THEN <<>>
                    ELSE LET x == CHOOSE y \in T : TRUE
                         IN <<x>> \o build(T \ {x})
    IN build(S)

\* if event in self.event_handlers: for ev_handler in ...: ev_handler(event)
FanOut(st, e, i, handlers) ==
    IF EventKey(e) \in DOMAIN handlers
      THEN [st EXCEPT !.observed =
              @ \o [k \in 1..Cardinality(handlers[EventKey(e)]) |->
                      <<SetToSeq(handlers[EventKey(e)])[k], i>>]]
      ELSE st

\* The event loop as it would be if line 212 sat under the registry test of
\* line 213: bytes are counted for registered streams only.
RECURSIVE EventLoop_registered_only(_, _, _, _, _, _)
EventLoop_registered_only(st, events, i, reg, behaviour, handlers) ==
    IF i > Len(events) \/ st.raised
      THEN st
      ELSE LET e == events[i]
               c == IF e.type = "DataReceived" /\ reg[e.stream_id] = NoHandler
                      THEN st ELSE Classify(st, e)
               d == Deliver(c, e, i, reg, behaviour)
               f == IF d.raised THEN d ELSE FanOut(d, e, i, handlers)
           IN EventLoop_registered_only(f, events, i + 1, reg, behaviour, handlers)

\* The for loop over the events; an exception leaves it at once.
RECURSIVE EventLoop(_, _, _, _, _, _)
EventLoop(st, events, i, reg, behaviour, handlers) ==
    IF i > Len(events) \/ st.raised
      THEN st
      ELSE LET c == Classify(st, events[i])
               d == Deliver(c, events[i], i, reg, behaviour)
               f == IF d.raised THEN d ELSE FanOut(d, events[i], i, handlers)
           IN EventLoop(f, events, i + 1, reg, behaviour, handlers)

\* The loop over recv_streams: one command per stream with a nonzero total.
RECURSIVE StreamIncrements(_, _)
StreamIncrements(recv, k) ==
    IF k > MaxStreams THEN <<>>
    ELSE (IF recv[2 * k - 1] # 0 THEN <<<<2 * k - 1, recv[2 * k - 1]>>>> ELSE <<>>)
         \o StreamIncrements(recv, k + 1)

RECURSIVE SumAmounts(_)
SumAmounts(incs) ==
    IF incs = <<>> THEN 0 ELSE Head(incs)[2] + SumAmounts(Tail(incs))

\* process_events as it would be if StreamClosedError were not caught at
\* line 239: the refused increment ends the function, so the commands after
\* it, the connection increment and the flush are missing.
process_events_uncaught(events, reg, behaviour, handlers, peer_closed) ==
    LET st == EventLoop(LoopStart, events, 1, reg, behaviour, handlers)
        per_stream == StreamIncrements(st.recv, 1)
        recv_connection == SumAmounts(per_stream)
        refused == {k \in 1..Len(per_stream) : per_stream[k][1] \in peer_closed}
        first == IF refused = {} THEN 0
                 ELSE CHOOSE k \in refused : \A j \in refused : k <= j
    IN [NoObs EXCEPT
          !.arg = <<behaviour, peer_closed>>,
          !.batch = events,
          !.registry = reg,
          !.recv = st.recv,
          !.delivered = st.delivered,
          !.reported = st.reported,
          !.observed = st.observed,
          !.raised = st.raised \/ first # 0,
          !.terminated = st.connection_terminated,
          !.increments =
              IF st.raised THEN <<>>
              ELSE IF first # 0 THEN SubSeq(per_stream, 1, first)
              ELSE IF recv_connection # 0
                     THEN Append(per_stream, <<0, recv_connection>>)
                     ELSE per_stream,
          !.swallowed =
              IF st.raised \/ first = 0 THEN {} ELSE {per_stream[first][1]},
          !.flushed = ~st.raised /\ first = 0
                      /\ (recv_connection # 0 \/ st.settings_updated)]

\* The whole of process_events, as the record of what it did.  peer_closed is
\* the set of streams for which the engine raises StreamClosedError.
process_events(events, reg, behaviour, handlers, peer_closed) ==
    LET st == EventLoop(LoopStart, events, 1, reg, behaviour, handlers)
        per_stream == StreamIncrements(st.recv, 1)
        recv_connection == SumAmounts(per_stream)
    IN [NoObs EXCEPT
          !.arg = <<behaviour, peer_closed>>,
          !.batch = events,
          !.registry = reg,
          !.recv = st.recv,
          !.delivered = st.delivered,
          !.reported = st.reported,
          !.observed = st.observed,
          !.raised = st.raised,
          !.terminated = st.connection_terminated,
          !.increments =
              IF st.raised THEN <<>>
              ELSE IF recv_connection # 0
                     THEN Append(per_stream, <<0, recv_connection>>)
                     ELSE per_stream,
          !.swallowed =
              IF st.raised THEN {}
              ELSE {per_stream[k][1] : k \in 1..Len(per_stream)} \cap peer_closed,
          !.flushed = ~st.raised /\ (recv_connection # 0 \/ st.settings_updated)]

\* ---- data_received(data) --------------------------------------------------
\* Bytes arrive on a transport whose read is armed.
CanReceive == reading \ closed_transports # {}

\* self.h2conn is None: the attribute error is caught and logged.
data_received_no_engine ==
    /\ CanReceive
    /\ h2conn = None
    /\ last_op' = "data_received_no_engine"
    /\ obs' = NoObs
    /\ UNCHANGED <<conn_vars, reg_vars, env_vars, cb_vars, event_handlers, connect_calls>>

\* receive_data raises on malformed bytes: caught and logged.
data_received_decode_error ==
    /\ CanReceive
    /\ h2conn # None
    /\ last_op' = "data_received_decode_error"
    /\ obs' = NoObs
    /\ UNCHANGED <<conn_vars, reg_vars, env_vars, cb_vars, event_handlers, connect_calls>>

\* receive_data returns events; whatever process_events raises is caught.
data_received_events(events, behaviour, peer_closed) ==
    /\ CanReceive
    /\ h2conn # None
    /\ last_op' = "data_received"
    /\ obs' = process_events(events, ongoing_streams, behaviour, event_handlers,
                             peer_closed)
    /\ UNCHANGED <<conn_vars, reg_vars, env_vars, cb_vars, event_handlers, connect_calls>>

\* ---- specifications -------------------------------------------------------
\* The connection lifecycle with the data pump fed single connection-scoped
\* events (the pump assigns no connection field).
Next ==
    \/ connect
    \/ \E a \in Attempts : on_connect(a)
    \/ \E t \in Attempts : on_close(t)
    \/ \E a \in Attempts : on_timeout(a)
    \/ \E a \in Attempts : on_error_connect(a)
    \/ on_error_read
    \/ on_connection_ready
    \/ data_received_no_engine
    \/ data_received_decode_error
    \/ \E e \in ConnEvents :
         data_received_events(<<e>>, [h \in Handlers |-> "ok"], {})

Spec == Init /\ [][Next]_vars

\* The stream registry and the observer set of a connection that connects,
\* receives single events, is closed by its transport and connects again.
NextStreams ==
    \/ connect_accepted
    \/ \E a \in Attempts : on_connect_accept(a)
    \/ \E t \in Attempts : on_close(t)
    \/ \E h \in Handlers : begin_stream(h)
    \/ \E h \in Handlers : open_stream(h)
    \/ \E h \in Handlers : end_stream(h)
    \/ \E c \in Categories, o \in Observers : add_event_handler(c, o)
    \/ \E c \in Categories, o \in Observers : remove_event_handler(c, o)
    \/ \E e \in Events :
         data_received_events(<<e>>, [h \in Handlers |-> "ok"], {})

SpecStreams == Init /\ [][NextStreams]_vars

\* One decode batch on a connected connection: the registry, the batch, the
\* handlers' reactions and the peer-closed streams are drawn at the start,
\* data_received then runs once on them.
PeerClosed == {{}} \cup {{s} : s \in StreamIds}

\* The registries begin_stream and end_stream can build: no handler twice.
Registries ==
    {r \in [StreamIds -> Handlers \cup {NoHandler}] :
        \A s, t \in StreamIds : (r[s] = r[t] /\ r[s] # NoHandler) => s = t}

MaxId(r) ==
    LET used == {s \in StreamIds : r[s] # NoHandler}
    IN IF used = {} THEN 0 ELSE CHOOSE s \in used : \A t \in used : t <= s

InitDispatch ==
    /\ is_connected = TRUE
    /\ timed_out = FALSE
    /\ stream = 1
    /\ connect_timeout_t = NoTimer
    /\ h2conn = "Engine"
    /\ ongoing_streams \in Registries
    /\ highest = IF MaxId(ongoing_streams) > 1 THEN MaxId(ongoing_streams) - 2 ELSE 0
    /\ begun = {s \in StreamIds : s <= MaxId(ongoing_streams)}
    /\ stream_id_of = [h \in Handlers |->
                         IF \E s \in StreamIds : ongoing_streams[s] = h
                           THEN CHOOSE s \in StreamIds : ongoing_streams[s] = h
                           ELSE 0]
    /\ event_handlers = [c \in {} |-> {}]
    /\ timers = {}
    /\ fired = {}
    /\ pending = {}
    /\ opened = {1}
    /\ closed_transports = {}
    /\ close_callbacks = {1}
    /\ reading = {1}
    /\ closed_log = <<>>
    /\ ready_pending = 0
    /\ ready_calls = 1
    /\ connect_calls = 1
    /\ last_op = "bytes_arrived"
    /\ \E events \in Batches, behaviour \in Behaviours, peer_closed \in PeerClosed :
         obs = [NoObs EXCEPT !.arg = <<behaviour, peer_closed>>, !.batch = events]

NextDispatch ==
    /\ last_op = "bytes_arrived"
    /\ data_received_events(obs.batch, obs.arg[1], obs.arg[2])

SpecDispatch == InitDispatch /\ [][NextDispatch]_vars

\* ---- the lifecycle states of the specification -----------------------------
\* Connecting: a timer is armed and a transport connect is pending.
Connecting == timers # {} /\ pending # {}
\* Connected: on_connect has completed.
Connected == is_connected
\* Closed: the closure routine has run.
Closed == closed_log # <<>>

\* ---- what a batch should produce, computed from the batch alone ------------
RECURSIVE BatchTotal(_, _)
BatchTotal(events, s) ==
    IF events = <<>> THEN 0
    ELSE (IF Head(events).type = "DataReceived" /\ Head(events).stream_id = s
            THEN Head(events).len ELSE 0) + BatchTotal(Tail(events), s)

RECURSIVE TotalOver(_, _)
TotalOver(events, S) ==
    IF S = {} THEN 0
    ELSE LET s == CHOOSE x \in S : TRUE
         IN BatchTotal(events, s) + TotalOver(events, S \ {s})

\* The commands of the last batch that carry stream id s (0: the connection).
CommandsFor(s) == {k \in 1..Len(obs.increments) : obs.increments[k][1] = s}

\* The handle_event calls of the last batch made for its i-th event.
CallsFor(i) == {k \in 1..Len(obs.delivered) : obs.delivered[k][2] = i}

IsRouted(e) == e.stream_id # 0 /\ obs.registry[e.stream_id] # NoHandler

\* C1: on_connection_closed is invoked at most once on one connection object,
\* whatever the interleaving of connect, on_timeout, on_error, on_close and
\* on_connect.
C1_ClosedAtMostOnce == Len(closed_log) <= 1

\* C2: every terminal condition (connect timeout, transport error, transport
\* close notification, decode error in data_received) runs the closure
\* routine, which invokes on_connection_closed and leaves the connection not
\* connected.
C2_TerminalConditionCloses ==
    [][last_op' \in {"on_timeout", "on_error_connect", "on_error_read", "on_close",
                     "data_received_decode_error"}
         => (Len(closed_log') = Len(closed_log) + 1 /\ ~is_connected')]_vars

\* C3: a transport that arrives in on_connect after the timer of its attempt
\* fired is closed at once and not recorded (no engine, not connected, no
\* readiness callback queued), and on_connection_closed has been invoked
\* exactly once, with the request-timeout reason.
C3_LateTransportDiscarded ==
    (last_op \in {"on_connect", "on_connect_discard", "on_connect_raise"}
       /\ obs.arg[1] \in fired)
    => /\ obs.arg[1] \in closed_transports
       /\ stream = NoStream
       /\ h2conn = None
       /\ ~is_connected
       /\ ready_pending = 0
       /\ closed_log = <<TIMEOUT>>

\* C4: connect() while Connecting or Connected changes nothing: no timer is
\* scheduled, no transport connect is started, and timed_out, the transport,
\* the engine and the registry stay as they are.
C4_ConnectRejectedWhenBusy ==
    [][(last_op' \in {"connect", "connect_rejected"} /\ (Connecting \/ Connected))
         => UNCHANGED <<timers, pending, timed_out, stream, h2conn, highest,
                        ongoing_streams>>]_vars

\* C5: Closed is terminal: once the closure routine has run, no later call
\* makes is_connected true, records a transport or creates an engine.
C5_ClosedIsTerminal ==
    [][Closed => (~is_connected' /\ stream' = NoStream /\ h2conn' = None)]_vars

\* C6: every id begin_stream returns is greater than all ids it returned
\* before, and the registry entry it writes was free.
C6_StreamIdsIncrease ==
    [][last_op' = "begin_stream"
         => /\ \A i \in begun : obs'.arg[2] > i
            /\ ongoing_streams[obs'.arg[2]] = NoHandler]_vars

\* C7: one batch yields exactly one per-stream increment for each stream with
\* a nonzero received total, carrying that total, none for the other streams,
\* exactly one connection increment carrying the sum of the totals (none when
\* the sum is zero), the connection increment last, and then a flush.
C7_CreditPerBatch ==
    last_op = "data_received"
    => /\ \A s \in StreamIds :
            IF BatchTotal(obs.batch, s) # 0
              THEN /\ Cardinality(CommandsFor(s)) = 1
                   /\ \A k \in CommandsFor(s) :
                        obs.increments[k][2] = BatchTotal(obs.batch, s)
              ELSE CommandsFor(s) = {}
       /\ IF TotalOver(obs.batch, StreamIds) # 0
            THEN /\ CommandsFor(0) = {Len(obs.increments)}
                 /\ obs.increments[Len(obs.increments)][2] =
                      TotalOver(obs.batch, StreamIds)
                 /\ obs.flushed
            ELSE CommandsFor(0) = {}

\* C8: an event of a batch whose stream id is not registered causes no
\* handler call and no error, and an event whose stream id is registered is
\* handed to the handler registered under that id and to no other handler.
C8_RoutedToRegisteredHandler ==
    last_op = "data_received"
    => \A i \in 1..Len(obs.batch) :
         IF IsRouted(obs.batch[i])
           THEN /\ Cardinality(CallsFor(i)) = 1
                /\ \A k \in CallsFor(i) :
                     obs.delivered[k][1] = obs.registry[obs.batch[i].stream_id]
           ELSE CallsFor(i) = {}

\* C9: when handle_event raises, the error goes to the handler's
\* handle_exception and, whatever that returns, the later events of the batch
\* still reach their handlers and the batch's increments and flush are done.
C9_HandlerErrorIsolated ==
    (last_op = "data_received" /\ obs.reported # <<>>)
    => /\ \A j \in 1..Len(obs.reported) :
            \E k \in 1..Len(obs.delivered) : obs.delivered[k] = obs.reported[j]
       /\ \A i \in 1..Len(obs.batch) :
            IsRouted(obs.batch[i]) => CallsFor(i) # {}
       /\ Len(obs.increments) =
            Cardinality({s \in StreamIds : BatchTotal(obs.batch, s) # 0})
            + (IF TotalOver(obs.batch, StreamIds) # 0 THEN 1 ELSE 0)
       /\ (TotalOver(obs.batch, StreamIds) # 0 => obs.flushed)

\* C10: removing an observer that is not in the set fails, and removing one
\* right after add_event_handler registered it succeeds.
C10_RemoveAfterAdd ==
    [][/\ (last_op' = "remove_event_handler_raise"
             => obs'.arg[2] \notin DictGet(event_handlers, CategoryKey(obs'.arg[1])))
       /\ (last_op = "add_event_handler"
             /\ last_op' \in {"remove_event_handler", "remove_event_handler_raise"}
             /\ obs'.arg = obs.arg)
            => last_op' = "remove_event_handler"]_vars

\* C11: once add_event_handler(category, handler) has run, an event of that
\* category dispatched by process_events makes the handler run with it, once
\* per event.
C11_ObserverInvoked ==
    [][(/\ last_op = "add_event_handler"
        /\ last_op' = "data_received"
        /\ ~obs'.raised)
         => \A i \in 1..Len(obs'.batch) :
              obs'.batch[i].type = obs.arg[1]
                => Cardinality({k \in 1..Len(obs'.observed) :
                                  obs'.observed[k] = <<obs.arg[2], i>>}) = 1]_vars

\* C12: end_stream(handler) removes the registry entry keyed by
\* handler.stream_id and leaves every other entry as it is; when there is no
\* entry under that id it raises nothing and leaves the registry unchanged.
C12_EndStreamTolerant ==
    [][last_op' \in {"end_stream", "end_stream_raise"}
         => IF ongoing_streams[stream_id_of[obs'.arg[1]]] # NoHandler
              THEN /\ last_op' = "end_stream"
                   /\ ongoing_streams' =
                        [ongoing_streams EXCEPT ![stream_id_of[obs'.arg[1]]] = NoHandler]
              ELSE /\ last_op' = "end_stream"
                   /\ ongoing_streams' = ongoing_streams]_vars

\* The reason of the latest on_connection_closed call.
LastReason == closed_log[Len(closed_log)]

\* C13: on_connection_closed gets the reason of the failure that closed the
\* connection: the request-timeout error after a connect timeout, the error
\* value after a transport error, the transport's close reason after a
\* transport close; and the first call carries the first failure's reason.
C13_ReasonOfFailure ==
    /\ (last_op = "on_timeout" => LastReason = TIMEOUT)
    /\ (last_op \in {"on_error_connect", "on_error_read", "on_connect_raise"}
          => LastReason = ERROR)
    /\ (last_op = "on_close" => LastReason = obs.arg[2])

HasTermination(events) ==
    \E i \in 1..Len(events) : events[i].type = "ConnectionTerminated"

\* C14: a batch that holds a connection-termination event is first dispatched
\* in full (every event with a registered stream id reaches its handler) and
\* then the connection is closed: the closure routine has run and the
\* connection is no longer connected.
C14_TerminationClosesAfterBatch ==
    (last_op = "data_received" /\ HasTermination(obs.batch))
    => /\ \A i \in 1..Len(obs.batch) : IsRouted(obs.batch[i]) => CallsFor(i) # {}
       /\ Closed
       /\ ~is_connected

\* C15: at most one connect-timeout timer is outstanding; a timer is
\* outstanding only while its connect attempt is neither answered nor
\* failed; and on_timeout never runs on a connection that the closure
\* routine has already closed.
C15_TimerOnlyWhileConnecting ==
    /\ Cardinality(timers) <= 1
    /\ timers \subseteq pending
    /\ (last_op = "on_timeout" => Len(closed_log) = 1)

\* C16: once the closure routine has run, no later handler writes to a
\* transport, decodes bytes with the engine, dispatches to a stream handler
\* or issues a credit increment.
C16_QuietAfterClosure ==
    [][Closed
         => /\ ~obs'.flushed
            /\ last_op' \notin {"data_received", "data_received_decode_error"}
            /\ obs'.delivered = <<>>
            /\ obs'.increments = <<>>]_vars

\* C17: when the engine refuses a per-stream increment because the stream is
\* closed, the batch goes on: every stream with a nonzero total still gets
\* its increment, the connection gets one increment of the sum of the
\* totals, the flush follows, and the connection is not closed.
C17_StreamClosedSwallowed ==
    (last_op = "data_received" /\ obs.swallowed # {})
    => /\ \A s \in StreamIds :
            BatchTotal(obs.batch, s) # 0
              => \E k \in CommandsFor(s) :
                   obs.increments[k][2] = BatchTotal(obs.batch, s)
       /\ CommandsFor(0) = {Len(obs.increments)}
       /\ obs.increments[Len(obs.increments)][2] = TotalOver(obs.batch, StreamIds)
       /\ obs.flushed
       /\ ~obs.raised
       /\ is_connected
       /\ ~Closed

\* A batch with data on two streams, the increment of the lower one refused.
C17_Witness ==
    /\ last_op = "data_received"
    /\ obs.swallowed = {1}
    /\ BatchTotal(obs.batch, 3) # 0
    /\ Len(obs.increments) = 3

\* The number of events the event loop of the last batch handled: all of
\* them, or those up to the event whose handler's exception left the loop.
Reached ==
    IF obs.raised THEN obs.delivered[Len(obs.delivered)][2] ELSE Len(obs.batch)

RECURSIVE SumRecv(_, _)
SumRecv(recv, S) ==
    IF S = {} THEN 0
    ELSE LET s == CHOOSE x \in S : TRUE IN recv[s] + SumRecv(recv, S \ {s})

Unregistered == {s \in StreamIds : obs.registry[s] = NoHandler}

\* C18 as claimed: a data-delivery event for a stream id that is not in the
\* registry adds to no per-stream increment and to no part of the connection
\* increment of its batch.
C18_OnlyRegisteredCredited ==
    last_op = "data_received"
    => /\ \A s \in Unregistered : CommandsFor(s) = {}
       /\ \A k \in CommandsFor(0) :
            obs.increments[k][2] = TotalOver(obs.batch, StreamIds \ Unregistered)

\* C18 as amended: the ledger takes the bytes of every data-delivery event
\* the loop handles, registered stream id or not, and every increment issued
\* carries the ledger's amount: a stream's total, or the sum of all totals.
C18_AllDataCredited ==
    last_op = "data_received"
    => /\ \A s \in StreamIds :
            obs.recv[s] = BatchTotal(SubSeq(obs.batch, 1, Reached), s)
       /\ \A s \in StreamIds : \A k \in CommandsFor(s) :
            obs.increments[k][2] = obs.recv[s]
       /\ \A k \in CommandsFor(0) :
            obs.increments[k][2] = SumRecv(obs.recv, StreamIds)
       /\ \A s \in Unregistered :
            (obs.recv[s] # 0 /\ ~obs.raised) => CommandsFor(s) # {}

\* Data arrived for a stream id with no handler and was credited.
C18_Witness ==
    /\ last_op = "data_received"
    /\ \E s \in Unregistered :
         /\ BatchTotal(obs.batch, s) # 0
         /\ CommandsFor(s) # {}
         /\ \E k \in CommandsFor(0) : obs.increments[k][2] >= BatchTotal(obs.batch, s)

\* on_connect accepted a transport and queued the readiness callback, and
\* on_connection_closed has run since.
ClosedBeforeReady == ready_pending > 0 /\ Closed

\* C19: on_connection_ready is invoked only while the connection is
\* Connected, at most once per accepted transport, and never after
\* on_connection_closed has been invoked for the connection.
C19_ReadyOnlyWhileConnected ==
    /\ last_op = "on_connection_ready" => (Connected /\ ~Closed)
    /\ ready_calls + ready_pending <= Cardinality(opened)

\* C20: every transport delivered to on_connect is the recorded transport or
\* has been closed; after the closure routine every delivered transport is
\* closed and no transport is recorded; is_connected implies a recorded
\* transport and a protocol engine.
C20_NoTransportLeaked ==
    /\ \A t \in opened : t = stream \/ t \in closed_transports
    /\ Closed => (opened \subseteq closed_transports /\ stream = NoStream)
    /\ is_connected => (stream # NoStream /\ h2conn # None)

====
